---- MODULE Spec2Model ----
(***************************************************************************)
(* CHIP-8 virtual machine of kapitanov/chip8vm: the VM struct, the opcode  *)
(* decoder, the instruction handlers and the Run / runStep / step driver,  *)
(* together with the host (HAL) input poll and the main loop around Run.   *)
(*                                                                         *)
(* The machine is one record, `machine`, with the fields of the Go struct. *)
(* Every instruction handler is an operator from (vm, opcode) to the pair  *)
(* [vm, err] the Go closure leaves behind; unsigned Go arithmetic keeps    *)
(* its width (% 256 for uint8, % 65536 for uint16) and an out-of-range     *)
(* slice index is the run-time panic Go raises for it.                     *)
(***************************************************************************)
EXTENDS Integers, Sequences, FiniteSets, TLC

VARIABLES machine, at, err, hal, lastOp, trace

vars == <<machine, at, err, hal, lastOp, trace>>

----------------------------------------------------------------------------
(* Program constants                                                       *)

MemorySize == 4096
StackSize == 16
RegisterCount == 16
ScreenWidth == 64
ScreenHeight == 32
KeyCount == 16
ProgramStart == 512
InstructionSize == 2

U8 == 256
U16 == 65536

(* Bounds of the model *)
MaxEvents == 1     \* SDL events queued between two polls
MaxTrace == 5      \* executed instructions the trace remembers

----------------------------------------------------------------------------
(* Bit operations on unsigned integers                                     *)

RECURSIVE BitAnd(_, _)
BitAnd(a, b) ==
    IF a = 0 \/ b = 0 THEN 0
    ELSE ((a % 2) * (b % 2)) + 2 * BitAnd(a \div 2, b \div 2)

RECURSIVE BitOr(_, _)
BitOr(a, b) ==
    IF a = 0 THEN b
    ELSE IF b = 0 THEN a
    ELSE (IF (a % 2) + (b % 2) > 0 THEN 1 ELSE 0) + 2 * BitOr(a \div 2, b \div 2)

RECURSIVE BitXor(_, _)
BitXor(a, b) ==
    IF a = 0 THEN b
    ELSE IF b = 0 THEN a
    ELSE (((a % 2) + (b % 2)) % 2) + 2 * BitXor(a \div 2, b \div 2)

RECURSIVE Pow2(_)
Pow2(n) == IF n = 0 THEN 1 ELSE 2 * Pow2(n - 1)

Shr(a, n) == a \div Pow2(n)

----------------------------------------------------------------------------
(* Opcode fields                                                           *)

OpX(opcode) == Shr(BitAnd(opcode, 3840), 8)      \* (opcode & 0x0F00) >> 8
OpY(opcode) == Shr(BitAnd(opcode, 240), 4)       \* (opcode & 0x00F0) >> 4
OpN(opcode) == BitAnd(opcode, 15)                \* opcode & 0x000F
OpNN(opcode) == BitAnd(opcode, 255)              \* uint8(opcode & 0x00FF)
OpNNN(opcode) == BitAnd(opcode, 4095)            \* opcode & 0x0FFF

----------------------------------------------------------------------------
(* Errors                                                                  *)

Nil == [kind |-> "nil", opcode |-> 0]
errInfiniteLoop == [kind |-> "infinite loop", opcode |-> 0]
ErrReboot == [kind |-> "reboot", opcode |-> 0]
ErrQuit == [kind |-> "quit", opcode |-> 0]
ErrUnknown(opcode) == [kind |-> "unknown op code", opcode |-> opcode]
Panic == [kind |-> "panic", opcode |-> 0]

Ok(vm) == [vm |-> vm, err |-> Nil]
Fail(vm, e) == [vm |-> vm, err |-> e]

----------------------------------------------------------------------------
(* Instruction handlers: (vm, opcode) -> [vm, err]                         *)

\* The cleared slices the loops of initialize leave behind
ZeroMemory == [a \in 0..(MemorySize - 1) |-> 0]
ZeroGfx == [i \in 0..(ScreenWidth * ScreenHeight - 1) |-> 0]

SetReg(vm, r, v) == [vm EXCEPT !.registers[r] = v]
AdvancePC(vm, n) == [vm EXCEPT !.pc = (vm.pc + n) % U16]

\* 00E0 cls
clsInstruction(vm, opcode) ==
    Ok(AdvancePC([vm EXCEPT !.gfx = ZeroGfx,
                            !.drawFlag = TRUE], InstructionSize))

\* a return that resumes at the call instruction itself
rtsInstruction_ResumesAtCall(vm, opcode) ==
    LET sp == (vm.sp - 1) % U16
        v1 == [vm EXCEPT !.sp = sp]
    IN  IF sp >= StackSize THEN Fail(v1, Panic)
        ELSE Ok([v1 EXCEPT !.pc = vm.stack[sp]])

\* 00EE rts: vm.sp--; vm.pc = vm.stack[vm.sp]; vm.pc += 2
rtsInstruction(vm, opcode) ==
    LET sp == (vm.sp - 1) % U16
        v1 == [vm EXCEPT !.sp = sp]
    IN  IF sp >= StackSize THEN Fail(v1, Panic)
        ELSE Ok(AdvancePC([v1 EXCEPT !.pc = vm.stack[sp]], InstructionSize))

\* a jump that clears the lowest bit of its target
jmpInstruction_AlignsTarget(vm, opcode) ==
    LET pc == OpNNN(opcode) - (OpNNN(opcode) % 2)
    IN  IF pc = vm.pc THEN Fail(vm, errInfiniteLoop)
        ELSE Ok([vm EXCEPT !.pc = pc])

\* a jump without the self-loop detection
jmpInstruction_NoLoopCheck(vm, opcode) ==
    Ok([vm EXCEPT !.pc = OpNNN(opcode)])

\* 1NNN jmp
jmpInstruction(vm, opcode) ==
    LET pc == OpNNN(opcode)
    IN  IF pc = vm.pc THEN Fail(vm, errInfiniteLoop)
        ELSE Ok([vm EXCEPT !.pc = pc])

\* 2NNN jsr: vm.stack[vm.sp] = vm.pc; vm.sp++; vm.pc = NNN
jsrInstruction(vm, opcode) ==
    IF vm.sp >= StackSize THEN Fail(vm, Panic)
    ELSE Ok([vm EXCEPT !.stack[vm.sp] = vm.pc,
                       !.sp = (vm.sp + 1) % U16,
                       !.pc = OpNNN(opcode)])

Skip(vm, cond) ==
    IF cond THEN AdvancePC(vm, 2 * InstructionSize)
    ELSE AdvancePC(vm, InstructionSize)

\* 3XNN skeq vr,xx
skeq1Instruction(vm, opcode) ==
    Ok(Skip(vm, vm.registers[OpX(opcode)] = OpNN(opcode)))

\* 4XNN skne vr,xx
skne1Instruction(vm, opcode) ==
    Ok(Skip(vm, vm.registers[OpX(opcode)] # OpNN(opcode)))

\* 5XY0 skeq vr,vy
skeq2Instruction(vm, opcode) ==
    Ok(Skip(vm, vm.registers[OpX(opcode)] = vm.registers[OpY(opcode)]))

\* 6XNN mov vr,xx
mov1Instruction(vm, opcode) ==
    Ok(AdvancePC(SetReg(vm, OpX(opcode), OpNN(opcode)), InstructionSize))

\* 7XNN add vr,xx (no carry)
add1Instruction(vm, opcode) ==
    LET vX == OpX(opcode)
    IN  Ok(AdvancePC(SetReg(vm, vX, (vm.registers[vX] + OpNN(opcode)) % U8),
                     InstructionSize))

\* 8XY0 mov vr,vy
mov2Instruction(vm, opcode) ==
    Ok(AdvancePC(SetReg(vm, OpX(opcode), vm.registers[OpY(opcode)]),
                 InstructionSize))

\* 8XY1 or
orInstruction(vm, opcode) ==
    LET x == vm.registers[OpX(opcode)]
        y == vm.registers[OpY(opcode)]
    IN  Ok(AdvancePC(SetReg(vm, OpX(opcode), BitOr(x, y)), InstructionSize))

\* 8XY2 and
andInstruction(vm, opcode) ==
    LET x == vm.registers[OpX(opcode)]
        y == vm.registers[OpY(opcode)]
    IN  Ok(AdvancePC(SetReg(vm, OpX(opcode), BitAnd(x, y)), InstructionSize))

\* 8XY3 xor
xorInstruction(vm, opcode) ==
    LET x == vm.registers[OpX(opcode)]
        y == vm.registers[OpY(opcode)]
    IN  Ok(AdvancePC(SetReg(vm, OpX(opcode), BitXor(x, y)), InstructionSize))

\* add2Instruction with the carry tested on the operands before the addition
add2Instruction_CarryFromOperands(vm, opcode) ==
    LET vX == OpX(opcode)
        x == vm.registers[vX]
        y == vm.registers[OpY(opcode)]
        v1 == SetReg(vm, vX, (x + y) % U8)
        v2 == SetReg(v1, 15, IF y > 255 - x THEN 1 ELSE 0)
    IN  Ok(AdvancePC(v2, InstructionSize))

\* 8XY4 add vr,vy: the flag is computed from registers[vX] after the store
add2Instruction(vm, opcode) ==
    LET vX == OpX(opcode)
        x == vm.registers[vX]
        y == vm.registers[OpY(opcode)]
        v1 == SetReg(vm, vX, (x + y) % U8)
        r == v1.registers[vX]
        v2 == SetReg(v1, 15, IF r > 255 - r THEN 1 ELSE 0)
    IN  Ok(AdvancePC(v2, InstructionSize))

\* subInstruction with the borrow test off by one (y >= x)
subInstruction_BorrowOnEqual(vm, opcode) ==
    LET vX == OpX(opcode)
        x == vm.registers[vX]
        y == vm.registers[OpY(opcode)]
        v1 == SetReg(vm, 15, IF y >= x THEN 0 ELSE 1)
        v2 == SetReg(v1, vX, (x - y) % U8)
    IN  Ok(AdvancePC(v2, InstructionSize))

\* 8XY5 sub vr,vy: the flag is written first, the difference last
subInstruction(vm, opcode) ==
    LET vX == OpX(opcode)
        x == vm.registers[vX]
        y == vm.registers[OpY(opcode)]
        v1 == SetReg(vm, 15, IF y > x THEN 0 ELSE 1)
        v2 == SetReg(v1, vX, (x - y) % U8)
    IN  Ok(AdvancePC(v2, InstructionSize))

\* shrInstruction shifting VY into VX, as the original COSMAC interpreter did
shrInstruction_ShiftsVY(vm, opcode) ==
    LET vX == OpX(opcode)
        y == vm.registers[OpY(opcode)]
        v1 == SetReg(vm, 15, BitAnd(y, 1))
        v2 == SetReg(v1, vX, Shr(y, 1))
    IN  Ok(AdvancePC(v2, InstructionSize))

\* 8XY6 shr vr
shrInstruction(vm, opcode) ==
    LET vX == OpX(opcode)
        x == vm.registers[vX]
        v1 == SetReg(vm, 15, BitAnd(x, 1))
        v2 == SetReg(v1, vX, Shr(x, 1))
    IN  Ok(AdvancePC(v2, InstructionSize))

\* 8XY7 rsb vr,vy
rsbInstruction(vm, opcode) ==
    LET vX == OpX(opcode)
        x == vm.registers[vX]
        y == vm.registers[OpY(opcode)]
        v1 == SetReg(vm, 15, IF x > y THEN 0 ELSE 1)
        v2 == SetReg(v1, vX, (y - x) % U8)
    IN  Ok(AdvancePC(v2, InstructionSize))

\* 8XYE shl vr
shlInstruction(vm, opcode) ==
    LET vX == OpX(opcode)
        x == vm.registers[vX]
        v1 == SetReg(vm, 15, Shr(x, 7))
        v2 == SetReg(v1, vX, (x * 2) % U8)
    IN  Ok(AdvancePC(v2, InstructionSize))

\* 9XY0 skne vr,vy
skne2Instruction(vm, opcode) ==
    Ok(Skip(vm, vm.registers[OpX(opcode)] # vm.registers[OpY(opcode)]))

\* ANNN mvi
mviInstruction(vm, opcode) ==
    Ok(AdvancePC([vm EXCEPT !.index = OpNNN(opcode)], InstructionSize))

\* BNNN jmi: vm.pc = NNN + uint16(V0)
jmiInstruction(vm, opcode) ==
    Ok([vm EXCEPT !.pc = (OpNNN(opcode) + vm.registers[0]) % U16])

\* CXNN rand: x is the value rand.IntN(256) returned
randInstruction(vm, opcode, x) ==
    Ok(AdvancePC(SetReg(vm, OpX(opcode), BitAnd(x % (255 + 1), OpNN(opcode))),
                 InstructionSize))

\* getScreenAddr with the column wrapped at the screen height
getScreenAddr_ColumnWrapsAtHeight(x, y) ==
    ScreenWidth * (y % ScreenHeight) + (x % ScreenHeight)

\* getScreenAddr(x, y)
getScreenAddr(x, y) == ScreenWidth * (y % ScreenHeight) + (x % ScreenWidth)

\* a draw that sets the cell (gfx[screenAddr] |= 1) instead of toggling it
Toggle_Sets(c) == BitOr(c, 1)

\* a draw that counts the hits of a cell (gfx[screenAddr] += 1)
Toggle_Counts(c) == (c + 1) % 256

\* gfx[screenAddr] ^= 1 on a uint8 cell
Toggle(c) == BitXor(c, 1)

\* The inner loop of spriteInstruction: columns x..7 of one sprite row.
\* st = [gfx, hasCollision]
RECURSIVE spriteRow(_, _, _, _, _)
spriteRow(st, pixel, x, xLocation, yy) ==
    IF x >= 8 THEN st
    ELSE LET mask == Shr(128, x)
             screenAddr == getScreenAddr((x + xLocation) % U16, yy)
             hit == BitAnd(pixel, mask) # 0
             st1 == IF hit
                    THEN [gfx |-> [st.gfx EXCEPT ![screenAddr] = Toggle(@)],
                          hasCollision |->
                              IF st.gfx[screenAddr] # 0 THEN 1 ELSE st.hasCollision]
                    ELSE st
         IN  spriteRow(st1, pixel, x + 1, xLocation, yy)

\* The outer loop of spriteInstruction, after its iterations 0..y-1.  An
\* iteration runs only if none before it panicked; a row whose address is
\* outside the memory slice panics, with the rows before it drawn.
RECURSIVE spriteRows(_, _, _, _, _)
spriteRows(st, vm, y, xLocation, yLocation) ==
    IF y = 0 THEN [st |-> st, panic |-> FALSE]
    ELSE LET before == spriteRows(st, vm, y - 1, xLocation, yLocation)
             pixelAddr == ((y - 1) + vm.index) % U16
         IN  IF before.panic THEN before
             ELSE IF pixelAddr >= MemorySize THEN [st |-> before.st, panic |-> TRUE]
             ELSE [st |-> spriteRow(before.st, vm.memory[pixelAddr], 0, xLocation,
                                    ((y - 1) + yLocation) % U16),
                   panic |-> FALSE]

\* DXYN sprite rx,ry,s
spriteInstruction(vm, opcode) ==
    LET xLocation == vm.registers[OpX(opcode)]
        yLocation == vm.registers[OpY(opcode)]
        height == OpN(opcode)
        res == spriteRows([gfx |-> vm.gfx, hasCollision |-> 0], vm, height,
                          xLocation, yLocation)
        v1 == [vm EXCEPT !.gfx = res.st.gfx]
    IN  IF res.panic THEN Fail(v1, Panic)
        ELSE Ok(AdvancePC([SetReg(v1, 15, res.st.hasCollision)
                              EXCEPT !.drawFlag = TRUE], InstructionSize))

\* EX9E skpr k: keypad[x] with x a uint8 register value
skprInstruction(vm, opcode) ==
    LET x == vm.registers[OpX(opcode)]
    IN  IF x >= KeyCount THEN Fail(vm, Panic)
        ELSE Ok(Skip(vm, vm.keypad[x] # 0))

\* EXA1 skup k
skupInstruction(vm, opcode) ==
    LET x == vm.registers[OpX(opcode)]
    IN  IF x >= KeyCount THEN Fail(vm, Panic)
        ELSE Ok(Skip(vm, vm.keypad[x] = 0))

\* FX07 gdelay vr
gdelayInstruction(vm, opcode) ==
    Ok(AdvancePC(SetReg(vm, OpX(opcode), vm.delayTimer), InstructionSize))

\* a scan that reports the lowest-numbered pressed key of the slots i..15
keyScan_LowestKey(st, keypad, vX, i) ==
    IF \E k \in i..(KeyCount - 1) : keypad[k] # 0
    THEN [registers |->
              [st.registers EXCEPT ![vX] =
                  CHOOSE k \in i..(KeyCount - 1) :
                      keypad[k] # 0 /\ \A j \in i..(k - 1) : keypad[j] = 0],
          keyPressed |-> TRUE]
    ELSE st

\* The loop of keyInstruction over the keypad slots i..15.
\* st = [registers, keyPressed]
RECURSIVE keyScan(_, _, _, _)
keyScan(st, keypad, vX, i) ==
    IF i >= KeyCount THEN st
    ELSE keyScan(IF keypad[i] # 0
                 THEN [registers |-> [st.registers EXCEPT ![vX] = i],
                       keyPressed |-> TRUE]
                 ELSE st,
                 keypad, vX, i + 1)

\* FX0A key vr
keyInstruction(vm, opcode) ==
    LET st == keyScan([registers |-> vm.registers, keyPressed |-> FALSE],
                      vm.keypad, OpX(opcode), 0)
        v1 == [vm EXCEPT !.registers = st.registers]
    IN  IF ~st.keyPressed THEN Ok(v1)
        ELSE Ok(AdvancePC(v1, InstructionSize))

\* FX15 sdelay vr
sdelayInstruction(vm, opcode) ==
    Ok(AdvancePC([vm EXCEPT !.delayTimer = vm.registers[OpX(opcode)]],
                 InstructionSize))

\* FX18 ssound vr
ssoundInstruction(vm, opcode) ==
    Ok(AdvancePC([vm EXCEPT !.soundTimer = vm.registers[OpX(opcode)]],
                 InstructionSize))

\* an adi whose flag is taken from the index register before the addition
adiInstruction_CarryFromOldIndex(vm, opcode) ==
    LET x == vm.registers[OpX(opcode)]
        v1 == SetReg(vm, 15, IF vm.index > 4095 THEN 1 ELSE 0)
        v2 == [v1 EXCEPT !.index = (vm.index + x) % U16]
    IN  Ok(AdvancePC(v2, InstructionSize))

\* FX1E adi vr: the flag is written before the index is updated
adiInstruction(vm, opcode) ==
    LET x == vm.registers[OpX(opcode)]
        v1 == SetReg(vm, 15, IF (vm.index + x) % U16 > 4095 THEN 1 ELSE 0)
        v2 == [v1 EXCEPT !.index = (vm.index + x) % U16]
    IN  Ok(AdvancePC(v2, InstructionSize))

\* FX29 font vr
fontInstruction(vm, opcode) ==
    LET x == (vm.registers[OpX(opcode)] * 5) % U16
    IN  Ok(AdvancePC([vm EXCEPT !.index = x], InstructionSize))

\* Three stores of bcdInstruction in order, each at a uint16 address; the
\* first one outside the memory slice panics with the earlier ones done.
RECURSIVE storeBytes(_, _, _, _)
storeBytes(vm, addr, bytes, k) ==
    IF k > Len(bytes) THEN Ok(vm)
    ELSE LET a == (addr + (k - 1)) % U16
         IN  IF a >= MemorySize THEN Fail(vm, Panic)
             ELSE storeBytes([vm EXCEPT !.memory[a] = bytes[k]], addr, bytes, k + 1)

\* bcdInstruction with the tens digit left unreduced (x / 10)
bcdInstruction_TensUnreduced(vm, opcode) ==
    LET x == vm.registers[OpX(opcode)]
        res == storeBytes(vm, vm.index, <<x \div 100, x \div 10, x % 10>>, 1)
    IN  IF res.err # Nil THEN res
        ELSE Ok(AdvancePC(res.vm, InstructionSize))

\* FX33 bcd vr
bcdInstruction(vm, opcode) ==
    LET x == vm.registers[OpX(opcode)]
        res == storeBytes(vm, vm.index,
                          <<x \div 100, (x \div 10) % 10, x % 10>>, 1)
    IN  IF res.err # Nil THEN res
        ELSE Ok(AdvancePC(res.vm, InstructionSize))

\* strInstruction with the loop bound exclusive (i < n)
strInstruction_Exclusive(vm, opcode) ==
    LET n == OpX(opcode)
        res == storeBytes(vm, vm.index, [i \in 1..n |-> vm.registers[i - 1]], 1)
    IN  IF res.err # Nil THEN res
        ELSE Ok(AdvancePC([res.vm EXCEPT !.index = (vm.index + n + 1) % U16],
                          InstructionSize))

\* FX55 str v0-vr: for i := 0; i <= n; i++ { memory[index+i] = registers[i] }
strInstruction(vm, opcode) ==
    LET n == OpX(opcode)
        res == storeBytes(vm, vm.index, [i \in 1..(n + 1) |-> vm.registers[i - 1]], 1)
    IN  IF res.err # Nil THEN res
        ELSE Ok(AdvancePC([res.vm EXCEPT !.index = (vm.index + n + 1) % U16],
                          InstructionSize))

\* The loop of ldrInstruction: registers i..n from memory[index+i].
RECURSIVE loadRegs(_, _, _)
loadRegs(vm, n, i) ==
    IF i > n THEN Ok(vm)
    ELSE LET a == (vm.index + i) % U16
         IN  IF a >= MemorySize THEN Fail(vm, Panic)
             ELSE loadRegs(SetReg(vm, i, vm.memory[a]), n, i + 1)

\* FX65 ldr v0-vr
ldrInstruction(vm, opcode) ==
    LET n == OpX(opcode)
        res == loadRegs(vm, n, 0)
    IN  IF res.err # Nil THEN res
        ELSE Ok(AdvancePC([res.vm EXCEPT !.index = (vm.index + n + 1) % U16],
                          InstructionSize))

\* an unassigned opcode treated as a no-op
unknownInstruction_Skips(vm, opcode) == Ok(AdvancePC(vm, InstructionSize))

unknownInstruction(vm, opcode) == Fail(vm, ErrUnknown(opcode))

----------------------------------------------------------------------------
(* Decoder and dispatch                                                    *)

\* decode(opcode): the name of the instruction value the switch returns
\* a decoder that looks at the top nibble only
decode_TopNibbleOnly(opcode) ==
    LET top == BitAnd(opcode, 61440)
    IN  CASE top = 0 -> "cls"
          [] top = 4096 -> "jmp"
          [] top = 8192 -> "jsr"
          [] top = 12288 -> "skeq1"
          [] top = 16384 -> "skne1"
          [] top = 20480 -> "skeq2"
          [] top = 24576 -> "mov1"
          [] top = 28672 -> "add1"
          [] top = 32768 -> "mov2"
          [] top = 36864 -> "skne2"
          [] top = 40960 -> "mvi"
          [] top = 45056 -> "jmi"
          [] top = 49152 -> "rand"
          [] top = 53248 -> "sprite"
          [] top = 57344 -> "skpr"
          [] top = 61440 -> "gdelay"
          [] OTHER -> "unknown"

decode(opcode) ==
    LET top == BitAnd(opcode, 61440)     \* opcode & 0xF000
        low == BitAnd(opcode, 255)       \* opcode & 0x00FF
        nib == BitAnd(opcode, 15)        \* opcode & 0x000F
    IN  CASE top = 0 ->
                 (CASE low = 224 -> "cls"
                    [] low = 238 -> "rts"
                    [] OTHER -> "unknown")
          [] top = 4096 -> "jmp"
          [] top = 8192 -> "jsr"
          [] top = 12288 -> "skeq1"
          [] top = 16384 -> "skne1"
          [] top = 20480 -> "skeq2"
          [] top = 24576 -> "mov1"
          [] top = 28672 -> "add1"
          [] top = 32768 ->
                 (CASE nib = 0 -> "mov2"
                    [] nib = 1 -> "or"
                    [] nib = 2 -> "and"
                    [] nib = 3 -> "xor"
                    [] nib = 4 -> "add2"
                    [] nib = 5 -> "sub"
                    [] nib = 6 -> "shr"
                    [] nib = 7 -> "rsb"
                    [] nib = 14 -> "shl"
                    [] OTHER -> "unknown")
          [] top = 36864 -> "skne2"
          [] top = 40960 -> "mvi"
          [] top = 45056 -> "jmi"
          [] top = 49152 -> "rand"
          [] top = 53248 -> "sprite"
          [] top = 57344 ->
                 (CASE low = 158 -> "skpr"
                    [] low = 161 -> "skup"
                    [] OTHER -> "unknown")
          [] top = 61440 ->
                 (CASE low = 7 -> "gdelay"
                    [] low = 10 -> "key"
                    [] low = 21 -> "sdelay"
                    [] low = 24 -> "ssound"
                    [] low = 30 -> "adi"
                    [] low = 41 -> "font"
                    [] low = 51 -> "bcd"
                    [] low = 85 -> "str"
                    [] low = 101 -> "ldr"
                    [] OTHER -> "unknown")
          [] OTHER -> "unknown"

\* instr.Execute(vm, opcode); rnd is the number rand.IntN(256) returns
Execute(instr, vm, opcode, rnd) ==
    CASE instr = "cls" -> clsInstruction(vm, opcode)
      [] instr = "rts" -> rtsInstruction(vm, opcode)
      [] instr = "jmp" -> jmpInstruction(vm, opcode)
      [] instr = "jsr" -> jsrInstruction(vm, opcode)
      [] instr = "skeq1" -> skeq1Instruction(vm, opcode)
      [] instr = "skne1" -> skne1Instruction(vm, opcode)
      [] instr = "skeq2" -> skeq2Instruction(vm, opcode)
      [] instr = "mov1" -> mov1Instruction(vm, opcode)
      [] instr = "add1" -> add1Instruction(vm, opcode)
      [] instr = "mov2" -> mov2Instruction(vm, opcode)
      [] instr = "or" -> orInstruction(vm, opcode)
      [] instr = "and" -> andInstruction(vm, opcode)
      [] instr = "xor" -> xorInstruction(vm, opcode)
      [] instr = "add2" -> add2Instruction(vm, opcode)
      [] instr = "sub" -> subInstruction(vm, opcode)
      [] instr = "shr" -> shrInstruction(vm, opcode)
      [] instr = "rsb" -> rsbInstruction(vm, opcode)
      [] instr = "shl" -> shlInstruction(vm, opcode)
      [] instr = "skne2" -> skne2Instruction(vm, opcode)
      [] instr = "mvi" -> mviInstruction(vm, opcode)
      [] instr = "jmi" -> jmiInstruction(vm, opcode)
      [] instr = "rand" -> randInstruction(vm, opcode, rnd)
      [] instr = "sprite" -> spriteInstruction(vm, opcode)
      [] instr = "skpr" -> skprInstruction(vm, opcode)
      [] instr = "skup" -> skupInstruction(vm, opcode)
      [] instr = "gdelay" -> gdelayInstruction(vm, opcode)
      [] instr = "key" -> keyInstruction(vm, opcode)
      [] instr = "sdelay" -> sdelayInstruction(vm, opcode)
      [] instr = "ssound" -> ssoundInstruction(vm, opcode)
      [] instr = "adi" -> adiInstruction(vm, opcode)
      [] instr = "font" -> fontInstruction(vm, opcode)
      [] instr = "bcd" -> bcdInstruction(vm, opcode)
      [] instr = "str" -> strInstruction(vm, opcode)
      [] instr = "ldr" -> ldrInstruction(vm, opcode)
      [] OTHER -> unknownInstruction(vm, opcode)

executeOpcode(vm, opcode, rnd) == Execute(decode(opcode), vm, opcode, rnd)

\* fetchOpcode: memory[pc] and memory[pc+1]; -1 stands for the panic of an
\* index outside the memory slice
fetchOpcode(vm) ==
    IF vm.pc >= MemorySize \/ (vm.pc + 1) % U16 >= MemorySize THEN -1
    ELSE vm.memory[vm.pc] * 256 + vm.memory[(vm.pc + 1) % U16]

\* a timer update that decrements without testing for zero
updateTimers_Wraps(vm) ==
    [vm EXCEPT !.delayTimer = (@ + U8 - 1) % U8,
               !.soundTimer = (@ + U8 - 1) % U8]

\* The timer update at the end of step
updateTimers(vm) ==
    [vm EXCEPT !.delayTimer = IF @ > 0 THEN @ - 1 ELSE @,
               !.soundTimer = IF @ > 0 THEN @ - 1 ELSE @]

\* a step that leaves the timers alone when the instruction did not move PC
step_SkipsTimersWhenBlocked(vm, rnd) ==
    LET opcode == fetchOpcode(vm)
    IN  IF opcode = -1 THEN [vm |-> vm, err |-> Panic, beep |-> FALSE]
        ELSE LET res == executeOpcode(vm, opcode, rnd)
             IN  IF res.err # Nil
                 THEN [vm |-> res.vm, err |-> res.err, beep |-> FALSE]
                 ELSE IF res.vm.pc = vm.pc
                 THEN [vm |-> res.vm, err |-> Nil, beep |-> FALSE]
                 ELSE [vm |-> updateTimers(res.vm), err |-> Nil,
                       beep |-> (res.vm.soundTimer = 1)]

\* a step that runs the timer update whether or not the instruction failed
step_TicksBeforeFailing(vm, rnd) ==
    LET opcode == fetchOpcode(vm)
    IN  IF opcode = -1 THEN [vm |-> vm, err |-> Panic, beep |-> FALSE]
        ELSE LET res == executeOpcode(vm, opcode, rnd)
             IN  [vm |-> updateTimers(res.vm), err |-> res.err,
                  beep |-> (res.vm.soundTimer = 1)]

\* VM.step: [vm, err, beep]
step(vm, rnd) ==
    LET opcode == fetchOpcode(vm)
    IN  IF opcode = -1 THEN [vm |-> vm, err |-> Panic, beep |-> FALSE]
        ELSE LET res == executeOpcode(vm, opcode, rnd)
             IN  IF res.err # Nil
                 THEN [vm |-> res.vm, err |-> res.err, beep |-> FALSE]
                 ELSE [vm |-> updateTimers(res.vm), err |-> Nil,
                       beep |-> (res.vm.soundTimer = 1)]

----------------------------------------------------------------------------
(* Construction and initialization                                         *)

\* The font set, 16 glyphs of 5 bytes
chip8Font ==
    << 240, 144, 144, 144, 240,    32,  96,  32,  32, 112,
       240,  16, 240, 128, 240,   240,  16, 240,  16, 240,
       144, 144, 240,  16,  16,   240, 128, 240,  16, 240,
       240, 128, 240, 144, 240,   240,  16,  32,  64,  64,
       240, 144, 240, 144, 240,   240, 144, 240,  16, 240,
       240, 144, 240, 144, 144,   224, 144, 224, 144, 224,
       240, 128, 128, 128, 240,   224, 144, 144, 144, 224,
       240, 128, 240, 128, 240,   240, 128, 240, 128, 128 >>

\* a copy that does not stop at the end of dst
Copy_PastTheEnd(dst, start, src) ==
    [a \in start..(start + Len(src) - 1) |-> src[(a - start) + 1]] @@ dst

\* copy(dst[start:], src): the bytes of src, as many as dst[start:] can take
Copy(dst, start, src) ==
    [a \in {b \in start..(start + Len(src) - 1) : b \in DOMAIN dst} |->
        src[(a - start) + 1]] @@ dst

\* The memory after "clear memory" and "load font"
FontMemory == Copy(ZeroMemory, 0, chip8Font)

\* vm.New(program): zeroed slices, zero scalars
New(program) ==
    [memory |-> ZeroMemory,
     registers |-> [r \in 0..(RegisterCount - 1) |-> 0],
     stack |-> [i \in 0..(StackSize - 1) |-> 0],
     sp |-> 0,
     pc |-> 0,
     index |-> 0,
     delayTimer |-> 0,
     soundTimer |-> 0,
     gfx |-> ZeroGfx,
     keypad |-> [k \in 0..(KeyCount - 1) |-> 0],
     drawFlag |-> FALSE,
     program |-> program]

\* an initialization that skips the "clear memory" loop
initialize_MemoryNotCleared(vm) ==
    [vm EXCEPT
        !.pc = ProgramStart,
        !.index = 0,
        !.sp = 0,
        !.gfx = ZeroGfx,
        !.drawFlag = TRUE,
        !.stack = [i \in DOMAIN vm.stack |-> 0],
        !.keypad = [k \in DOMAIN vm.keypad |-> 0],
        !.registers = [r \in DOMAIN vm.registers |-> 0],
        !.memory = Copy(Copy(vm.memory, 0, chip8Font), ProgramStart, vm.program),
        !.delayTimer = 0,
        !.soundTimer = 0]

\* VM.initialize
initialize(vm) ==
    [vm EXCEPT
        !.pc = ProgramStart,
        !.index = 0,
        !.sp = 0,
        !.gfx = ZeroGfx,
        !.drawFlag = TRUE,
        !.stack = [i \in DOMAIN vm.stack |-> 0],
        !.keypad = [k \in DOMAIN vm.keypad |-> 0],
        !.registers = [r \in DOMAIN vm.registers |-> 0],
        !.memory = Copy(FontMemory, ProgramStart, vm.program),
        !.delayTimer = 0,
        !.soundTimer = 0]

\* a key-up that leaves the slot as it is
keyUp_KeepsSlot(keypad, key) == keypad

\* VM.keyDown / VM.keyUp
keyDown(keypad, key) == [keypad EXCEPT ![key] = 1]
keyUp(keypad, key) == [keypad EXCEPT ![key] = 0]

----------------------------------------------------------------------------
(* Host: the SDL events one poll of HAL.ReadInput drains                   *)

BACKSPACE == 16     \* a scancode outside 0..15: the reset key

\* keyMap: scancodes 0..15 stand for the keys mapped to Key0..KeyF
keyMapOk(sc) == sc \in 0..(KeyCount - 1)

\* HAL.ReadInput over the queued events evs from position i on; apply says
\* whether the callbacks are vm.keyDown / vm.keyUp or the empty closures
RECURSIVE ReadInput(_, _, _, _)
ReadInput(keypad, evs, i, apply) ==
    IF i > Len(evs) THEN [keypad |-> keypad, err |-> Nil]
    ELSE LET e == evs[i]
         IN  CASE e.type = "QUIT" -> [keypad |-> keypad, err |-> ErrQuit]
               [] e.type = "KEYDOWN" ->
                    IF e.sc = BACKSPACE THEN [keypad |-> keypad, err |-> ErrReboot]
                    ELSE ReadInput(IF keyMapOk(e.sc) /\ apply
                                   THEN keyDown(keypad, e.sc) ELSE keypad,
                                   evs, i + 1, apply)
               [] e.type = "KEYUP" ->
                    ReadInput(IF keyMapOk(e.sc) /\ apply
                              THEN keyUp(keypad, e.sc) ELSE keypad,
                              evs, i + 1, apply)
               [] OTHER -> ReadInput(keypad, evs, i + 1, apply)

\* Scancodes the modelled host keyboard sends
HostScancodes == {3, 15, BACKSPACE}

HostEvents ==
    {[type |-> "QUIT", sc |-> 0]}
    \cup {[type |-> t, sc |-> sc] : t \in {"KEYDOWN", "KEYUP"}, sc \in HostScancodes}

SeqsUpTo(S, n) == UNION {[1..k -> S] : k \in 0..n}

EventQueues == SeqsUpTo(HostEvents, MaxEvents)

----------------------------------------------------------------------------
(* The driver: main, VM.Run, VM.runStep, VM.waitForReboot                  *)
(*                                                                         *)
(* at        where the driver stands: "main" (about to call machine.Run),  *)
(*           "step" (in runStep, about to call vm.step), "frame" (in       *)
(*           runStep, vm.step has returned nil), "waitForReboot", "exit"   *)
(*           (main has returned), "panic" (the process died)               *)
(* err       the error the last call returned                              *)
(* hal       the HAL calls the last action made                            *)
(* lastOp    the opcode the last action fetched (-1 when the last action   *)
(*           was not a vm.step that fetched an opcode)                     *)
(* trace     the last MaxTrace instructions this run executed, oldest      *)
(*           first: the opcode and the machine's scalars and registers     *)
(*           before it (and, for a draw, the framebuffer before it)        *)

NoCalls == [draw |-> FALSE, beep |-> FALSE, poll |-> FALSE]

\* The cells of a slice that are not zero, as <<index, value>> pairs
NonZero(f) == {<<i, f[i]>> : i \in {j \in DOMAIN f : f[j] # 0}}

Snapshot(vm, opcode) ==
    [opcode |-> opcode, pc |-> vm.pc, index |-> vm.index, sp |-> vm.sp,
     registers |-> vm.registers, stack |-> vm.stack,
     delayTimer |-> vm.delayTimer, soundTimer |-> vm.soundTimer,
     drawFlag |-> vm.drawFlag,
     gfx |-> IF decode(opcode) = "sprite" THEN NonZero(vm.gfx) ELSE {}]

Remember(tr, e) ==
    IF Len(tr) < MaxTrace THEN Append(tr, e) ELSE Append(Tail(tr), e)

\* Where an error returned by Run sends main: reboot calls Run again,
\* anything else returns from main
AfterRun(e) == IF e = ErrReboot THEN "main" ELSE "exit"

\* main: machine.Run(h) -> vm.initialize(); main's err keeps the value the
\* previous Run returned until this one returns
Run ==
    /\ at = "main"
    /\ machine' = initialize(machine)
    /\ at' = "step"
    /\ UNCHANGED err
    /\ hal' = NoCalls
    /\ lastOp' = -1
    /\ trace' = <<>>

\* runStep, first half: vm.step(hal)
Step ==
    /\ at = "step"
    /\ LET opcode == fetchOpcode(machine)
       IN  \E rnd \in (IF opcode # -1 /\ decode(opcode) = "rand" THEN 0..255 ELSE {0}) :
             LET res == step(machine, rnd)
             IN  /\ machine' = res.vm
                 /\ err' = res.err
                 /\ at' = CASE res.err = Nil -> "frame"
                            [] res.err = errInfiniteLoop -> "waitForReboot"
                            [] res.err = Panic -> "panic"
                            [] OTHER -> AfterRun(res.err)
                 /\ hal' = [NoCalls EXCEPT !.beep = res.beep]
                 /\ lastOp' = opcode
                 /\ trace' = IF opcode = -1 THEN trace
                             ELSE Remember(trace, Snapshot(machine, opcode))

\* runStep after vm.step, with evs the events the host has queued: hal.Draw
\* when the draw flag is set, then hal.ReadInput(vm.keyDown, vm.keyUp)
\* (hal.WaitForNextFrame only sleeps)
runStepRest(vm, evs) ==
    LET in == ReadInput(vm.keypad, evs, 1, TRUE)
    IN  [vm |-> [vm EXCEPT !.drawFlag = FALSE, !.keypad = in.keypad],
         err |-> in.err,
         draw |-> vm.drawFlag]

\* a halted turn that hands the key events to vm.keyDown / vm.keyUp
waitForRebootTurn_AppliesKeys(vm, evs) ==
    LET in == ReadInput(vm.keypad, evs, 1, TRUE)
    IN  [vm |-> [vm EXCEPT !.keypad = in.keypad], err |-> in.err]

\* One turn of the loop of waitForReboot, with evs the events the host has
\* queued: hal.ReadInput with two empty closures as callbacks
waitForRebootTurn(vm, evs) ==
    [vm |-> vm, err |-> ReadInput(vm.keypad, evs, 1, FALSE).err]

\* runStep, second half
Frame ==
    /\ at = "frame"
    /\ \E evs \in EventQueues :
         LET res == runStepRest(machine, evs)
         IN  /\ machine' = res.vm
             /\ err' = res.err
             /\ at' = IF res.err = Nil THEN "step" ELSE AfterRun(res.err)
             /\ hal' = [draw |-> res.draw, beep |-> FALSE, poll |-> TRUE]
             /\ lastOp' = -1
             /\ UNCHANGED trace

\* One turn of the loop of waitForReboot
WaitForReboot ==
    /\ at = "waitForReboot"
    /\ \E evs \in EventQueues :
         LET res == waitForRebootTurn(machine, evs)
         IN  /\ machine' = res.vm
             /\ err' = IF res.err = Nil THEN err ELSE res.err
             /\ at' = IF res.err = Nil THEN "waitForReboot" ELSE AfterRun(res.err)
             /\ hal' = [draw |-> FALSE, beep |-> FALSE, poll |-> TRUE]
             /\ lastOp' = -1
             /\ UNCHANGED trace

Next == Run \/ Step \/ Frame \/ WaitForReboot

----------------------------------------------------------------------------
(* Programs                                                                *)

Op(top, x, y, n) == top * 4096 + x * 256 + y * 16 + n
OpXNN(top, x, nn) == top * 4096 + x * 256 + nn
OpAddr(top, nnn) == top * 4096 + nnn

\* The ROM bytes of a sequence of opcodes, big-endian
Bytes(ops) ==
    [i \in 1..(2 * Len(ops)) |->
        IF i % 2 = 1 THEN ops[(i + 1) \div 2] \div 256 ELSE ops[i \div 2] % 256]

\* The address of the k-th instruction (k = 0, 1, ...) of a ROM
Addr(k) == ProgramStart + InstructionSize * k

\* The end-of-ROM idiom: a jump to itself as k-th instruction
Park(k) == OpAddr(1, Addr(k))

InitWith(programs) ==
    /\ machine \in {New(p) : p \in programs}
    /\ at = "main"
    /\ err = Nil
    /\ hal = NoCalls
    /\ lastOp = -1
    /\ trace = <<>>

\* Register values at the edges of the 8-bit range
ByteVals == {0, 1, 128, 255}

\* Values whose lowest and highest bits take every combination
ShiftVals == {0, 1, 3, 128, 129, 255}

ArithRegs == {0, 10, 15}

\* mov vX,a; mov vY,b; <8XYn: add, sub, rsb>; park
ArithPrograms ==
    {Bytes(<<OpXNN(6, x, a), OpXNN(6, y, b), Op(8, x, y, n), Park(3)>>) :
        x \in ArithRegs, y \in ArithRegs, a \in ByteVals, b \in ByteVals,
        n \in {4, 5, 7}}

\* mov vY,b; mov vX,a; <8XYn: shr, shl>; park
ShiftPrograms ==
    {Bytes(<<OpXNN(6, y, b), OpXNN(6, x, a), Op(8, x, y, n), Park(3)>>) :
        x \in ArithRegs, y \in ArithRegs, a \in ShiftVals, b \in {0, 255},
        n \in {6, 14}}

InitArith == InitWith(ArithPrograms \cup ShiftPrograms)

SpecArith == InitArith /\ [][Next]_vars

\* Values with every digit pattern: one, two and three decimal digits
BcdVals == {0, 9, 10, 99, 100, 234, 255}

\* Index values: free memory, and the last addresses of the memory
BcdAddrs == {768, 4093, 4094}

\* mov vX,v; mvi I; bcd vX; park
BcdPrograms ==
    {Bytes(<<OpXNN(6, x, v), OpAddr(10, i), OpXNN(15, x, 51), Park(3)>>) :
        x \in ArithRegs, v \in BcdVals, i \in BcdAddrs}

DataA == [k \in 1..16 |-> 16 + k]
DataB == [k \in 1..16 |-> 160 + k]

\* mvi DataA; ldr F; mvi a; str N; mvi DataB; ldr F; mvi a; ldr N; park;
\* then the 16 bytes of DataA and the 16 bytes of DataB
RoundTripProgram(n, a) ==
    Bytes(<<OpAddr(10, Addr(9)), OpXNN(15, 15, 101),
            OpAddr(10, a), OpXNN(15, n, 85),
            OpAddr(10, Addr(9) + 16), OpXNN(15, 15, 101),
            OpAddr(10, a), OpXNN(15, n, 101),
            Park(8)>>) \o DataA \o DataB

RoundTripPrograms ==
    {RoundTripProgram(n, a) : n \in {0, 1, 3, 15}, a \in {768}}
    \cup {RoundTripProgram(n, 4095 - n) : n \in {0, 1, 3, 15}}

\* A ROM that overwrites its own first instruction and a byte pair beyond
\* its end: mov v0,0x12; mov v1,0x34; mvi 0x200; str v0-v1; mvi 0x300;
\* str v0-v1; park
RewriteProgram ==
    Bytes(<<OpXNN(6, 0, 18), OpXNN(6, 1, 52), OpAddr(10, Addr(0)), OpXNN(15, 1, 85),
            OpAddr(10, 768), OpXNN(15, 1, 85), Park(6)>>)

InitMem == InitWith(BcdPrograms \cup RoundTripPrograms \cup {RewriteProgram})

SpecMem == InitMem /\ [][Next]_vars

\* Two sprites of 15 rows
SpriteData == <<255, 129, 0, 60, 1, 128, 170, 85, 24, 195, 126, 16, 8, 231, 255>>
BgData == <<15, 240, 255, 0, 129, 1, 85, 170, 255, 60, 0, 16, 24, 231, 126>>

\* Coordinates: the origin, a sprite wrapping around both edges, and values
\* beyond the screen size
DrawXs == {0, 61, 255}
DrawYs == {0, 30}
DrawHeights == {0, 3, 15}
DrawRegs == {<<0, 1>>, <<1, 1>>, <<15, 1>>, <<1, 15>>}

\* mov vX,x; mov vY,y; mvi sprite; sprite X,Y,N; sprite X,Y,N; park; data
DrawTwiceProgram(r, x, y, n) ==
    Bytes(<<OpXNN(6, r[1], x), OpXNN(6, r[2], y), OpAddr(10, Addr(6)),
            Op(13, r[1], r[2], n), Op(13, r[1], r[2], n), Park(5)>>)
    \o SpriteData

\* The same on a framebuffer another sprite was drawn on before:
\* mov vX,x; mov vY,y; mvi background; sprite X,Y,N; mvi sprite;
\* sprite X,Y,N; sprite X,Y,N; park; data
DrawOverProgram(r, x, y, n) ==
    Bytes(<<OpXNN(6, r[1], x), OpXNN(6, r[2], y), OpAddr(10, Addr(8) + 15),
            Op(13, r[1], r[2], n), OpAddr(10, Addr(8)),
            Op(13, r[1], r[2], n), Op(13, r[1], r[2], n), Park(7)>>)
    \o SpriteData \o BgData

DrawPrograms ==
    {DrawTwiceProgram(r, x, y, n) :
        r \in DrawRegs, x \in DrawXs, y \in DrawYs, n \in DrawHeights}
    \cup {DrawOverProgram(r, x, y, n) :
        r \in DrawRegs, x \in DrawXs, y \in DrawYs, n \in DrawHeights}

InitDraw == InitWith(DrawPrograms)

SpecDraw == InitDraw /\ [][Next]_vars

\* Timer values: never started, expiring in the step that sets it, a short
\* countdown, the largest
TimerVals == {0, 1, 3, 255}

\* mov v0,v; ssound v0; sdelay v0; gdelay v1 (three times); park
TimerProgram(v) ==
    Bytes(<<OpXNN(6, 0, v), OpXNN(15, 0, 24), OpXNN(15, 0, 21),
            OpXNN(15, 1, 7), OpXNN(15, 1, 7), OpXNN(15, 1, 7), Park(6)>>)

\* mov v0,0; key vX; key vX; park
KeyProgram(x) ==
    Bytes(<<OpXNN(6, 0, 0), OpXNN(15, x, 10), OpXNN(15, x, 10), Park(3)>>)

\* Both timers running while the machine waits for a key:
\* mov v0,3; sdelay v0; ssound v0; key v1; park
TimerKeyProgram ==
    Bytes(<<OpXNN(6, 0, 3), OpXNN(15, 0, 21), OpXNN(15, 0, 24),
            OpXNN(15, 1, 10), Park(4)>>)

\* Control flow: a ROM that is one self-jump; a forward jump over an
\* unassigned opcode; a loop of four turns closed by a backward jump; a
\* picture drawn before the machine parks; jumps to the last addresses of
\* the memory; an unassigned opcode in the instruction stream
ControlPrograms ==
    {Bytes(<<Park(0)>>),
     Bytes(<<OpAddr(1, Addr(2)), 65535, Park(2)>>),
     Bytes(<<OpXNN(7, 0, 64), OpXNN(3, 0, 0), OpAddr(1, Addr(0)), Park(3)>>),
     Bytes(<<OpXNN(6, 1, 62), OpAddr(10, Addr(0)), Op(13, 1, 1, 5),
             OpAddr(1, Addr(4)), Park(4)>>),
     Bytes(<<OpAddr(1, 4094)>>),
     Bytes(<<OpAddr(1, 4095)>>),
     Bytes(<<OpXNN(6, 0, 1), 65535, Park(2)>>)}
    \cup {TimerProgram(v) : v \in TimerVals}
    \cup {KeyProgram(x) : x \in {2, 15}}
    \cup {TimerKeyProgram}

Init == InitWith(ControlPrograms)

Spec == Init /\ [][Next]_vars

\* The deepest chain of calls the stack holds
MaxDepth == StackSize

\* Subroutine k (k = 0..MaxDepth-1) is "jsr k+1; rts" at instructions 2k and
\* 2k+1, the main routine (k = 0) parking instead of returning; the
\* innermost subroutine is one rts
CallChain ==
    Bytes([i \in 1..(2 * MaxDepth + 1) |->
              IF i = 2 THEN Park(1)
              ELSE IF i % 2 = 1 /\ i < 2 * MaxDepth + 1 THEN OpAddr(2, Addr(i + 1))
              ELSE 238])

\* A return with nothing to return to; a subroutine calling itself without
\* end; two subroutines, one calling the other, each called from two places;
\* a chain of calls filling the stack
CallPrograms ==
    {Bytes(<<238, Park(1)>>),
     Bytes(<<OpAddr(2, Addr(0))>>),
     Bytes(<<OpAddr(2, Addr(3)), OpAddr(2, Addr(5)), Park(2),
             OpAddr(2, Addr(5)), 238,
             OpXNN(7, 0, 1), 238>>),
     CallChain}

InitCall == InitWith(CallPrograms)

SpecCall == InitCall /\ [][Next]_vars

\* ROM sizes: empty, one byte, one byte less than the room above 0x200,
\* exactly that room, one byte more, and far more
RomSizes == {0, 1, 3583, 3584, 3585, 4000}

\* A ROM of L bytes: mov v0,1; mov v1,2; park, then nonzero bytes to the end
SizedProgram(L) ==
    LET code == Bytes(<<OpXNN(6, 0, 1), OpXNN(6, 1, 2), Park(2)>>)
    IN  [i \in 1..L |-> IF i <= Len(code) THEN code[i] ELSE 1 + (i % 255)]

InitLoad == InitWith({SizedProgram(L) : L \in RomSizes})

SpecLoad == InitLoad /\ [][Next]_vars

\* Low bytes: every low nibble under a zero high nibble, the low bytes that
\* select an instruction, and neighbours of those that select none
DecodeLows ==
    (0..15)
    \cup {224, 238, 158, 161, 7, 10, 21, 24, 30, 41, 51, 85, 101}
    \cup {16, 23, 26, 37, 94, 117, 133, 159, 225, 254, 255}

\* The second nibble
DecodeXs == {2, 10}

\* One-instruction ROMs, one for every top nibble, second nibble and low byte
DecodePrograms ==
    {Bytes(<<OpXNN(top, x, low)>>) :
        top \in 0..15, x \in DecodeXs, low \in DecodeLows}

InitDecode == InitWith(DecodePrograms)

SpecDecode == InitDecode /\ [][Next]_vars

----------------------------------------------------------------------------
(* Properties                                                              *)

\* The last action was a vm.step that fetched lastOp
Acted == lastOp # -1 /\ Len(trace) > 0

\* The machine's scalars and registers before that instruction
Pre == trace[Len(trace)]

Executed(name) == Acted /\ decode(lastOp) = name

\* Registers other than those in S are as they were before the instruction
RegsKeptExcept(S) ==
    \A r \in 0..(RegisterCount - 1) :
        r \notin S => machine.registers[r] = Pre.registers[r]

\* C1: add-reg (8XY4), for every X and Y, sets VF to 1 exactly when the 8-bit
\* addition carries (old VX + old VY > 255) and to 0 otherwise, and for
\* X # F leaves VX = (old VX + old VY) mod 256.
C1_AddCarryFlag ==
    Executed("add2") =>
        LET x == Pre.registers[OpX(lastOp)]
            y == Pre.registers[OpY(lastOp)]
        IN  /\ machine.registers[15] = (IF x + y > 255 THEN 1 ELSE 0)
            /\ OpX(lastOp) # 15 => machine.registers[OpX(lastOp)] = (x + y) % 256

C4_FlagIsBit ==
    (Acted /\ decode(lastOp) \in {"add2", "sub", "rsb"}) =>
        machine.registers[15] \in {0, 1}

Fetching == IF at = "step" THEN fetchOpcode(machine) ELSE -1

About(name) == Fetching # -1 /\ decode(Fetching) = name

\* C6: store-BCD (FX33) with VX = v and I+2 < 4096 writes memory[I] = v div
\* 100, memory[I+1] = (v div 10) mod 10, memory[I+2] = v mod 10, changes no
\* other memory byte, leaves I and all registers unchanged, and advances PC
\* by 2.
C6_StoreBcd ==
    [][(About("bcd") /\ machine.index + 2 < 4096) =>
        LET v == machine.registers[OpX(Fetching)]
            i == machine.index
        IN  /\ machine'.memory =
                   [a \in 0..4095 |->
                       CASE a = i -> v \div 100
                         [] a = i + 1 -> (v \div 10) % 10
                         [] a = i + 2 -> v % 10
                         [] OTHER -> machine.memory[a]]
            /\ 100 * machine'.memory[i] + 10 * machine'.memory[i + 1]
                   + machine'.memory[i + 2] = v
            /\ \A k \in 0..2 : machine'.memory[i + k] \in 0..9
            /\ machine'.index = i
            /\ machine'.registers = machine.registers
            /\ machine'.pc = machine.pc + 2]_vars

\* store-BCD of 234 has run at the last index that fits: 2, 3, 4 in the last
\* three bytes of the memory
C6_Witness ==
    /\ Executed("bcd") /\ at = "frame"
    /\ Pre.registers[OpX(lastOp)] = 234 /\ Pre.index = 4093
    /\ machine.memory[4093] = 2 /\ machine.memory[4094] = 3
    /\ machine.memory[4095] = 4

\* The positions i of the trace that hold a store-registers N executed at
\* the index the last instruction started from, with no store to memory
\* between it and the last instruction
MatchingStores ==
    {i \in 1..(Len(trace) - 1) :
        /\ decode(trace[i].opcode) = "str"
        /\ OpX(trace[i].opcode) = OpX(lastOp)
        /\ trace[i].index = Pre.index
        /\ \A j \in (i + 1)..(Len(trace) - 1) :
               decode(trace[j].opcode) \notin {"str", "bcd"}}

\* C7: for N in 0..F and I with I+N < 4096, store-registers N (FN55) at index
\* I writes memory[I+k] = Vk for k = 0..N and sets I := I+N+1; then, with I
\* reset to the original address, load-registers N (FN65) restores V0..VN to
\* the stored values whatever the registers held in between, leaves
\* V(N+1)..VF untouched, and again sets I := I+N+1.
C7_StoreLoadRoundTrip ==
    /\ (Executed("str") /\ Pre.index + OpX(lastOp) < 4096) =>
           /\ \A k \in 0..OpX(lastOp) :
                  machine.memory[Pre.index + k] = Pre.registers[k]
           /\ machine.index = Pre.index + OpX(lastOp) + 1
    /\ (Executed("ldr") /\ Pre.index + OpX(lastOp) < 4096) =>
           \A i \in MatchingStores :
               /\ \A k \in 0..OpX(lastOp) :
                      machine.registers[k] = trace[i].registers[k]
               /\ \A k \in (OpX(lastOp) + 1)..15 :
                      machine.registers[k] = Pre.registers[k]
               /\ machine.index = Pre.index + OpX(lastOp) + 1
               /\ trace[i + 1].index = trace[i].index + OpX(lastOp) + 1

\* load-registers 3 has run after a store-registers 3 at the same index with
\* the registers overwritten in between: V0..V3 are the stored values again,
\* V4 keeps what it was overwritten with
C7_Witness ==
    /\ Executed("ldr") /\ OpX(lastOp) = 3
    /\ MatchingStores # {}
    /\ \E i \in MatchingStores :
           /\ trace[i].registers[3] = 20
           /\ Pre.registers[3] = 164
    /\ machine.registers[3] = 20
    /\ machine.registers[4] = 165
    /\ machine.index = Pre.index + 4

\* Bit k (0 = least significant) of byte b
BitOf(b, k) == (b \div Pow2(k)) % 2

\* The framebuffer cells a sprite of n rows at memory[i..i+n) covers with a
\* set bit when drawn at (vx, vy)
SpriteCells(memory, i, vx, vy, n) ==
    {((vx + c) % 64) + 64 * ((vy + r) % 32) :
        <<r, c>> \in {rc \in (0..(n - 1)) \X (0..7) :
                        BitOf(memory[i + rc[1]], 7 - rc[2]) = 1}}

\* The last two instructions are the same draw-sprite at the same index, with
\* X and Y different from F
DrawnTwice ==
    /\ Executed("sprite") /\ Len(trace) >= 2
    /\ trace[Len(trace) - 1].opcode = lastOp
    /\ trace[Len(trace) - 1].index = Pre.index
    /\ OpX(lastOp) # 15 /\ OpY(lastOp) # 15

\* The cells the draw-sprite just executed covers
LastTarget ==
    SpriteCells(machine.memory, Pre.index, Pre.registers[OpX(lastOp)],
                Pre.registers[OpY(lastOp)], OpN(lastOp))

\* C8: executing the same DXYN twice in a row (X and Y different from F, I and
\* the sprite bytes unchanged between the two) restores the framebuffer to its
\* contents before the first draw; on an initially blank target area the
\* first draw leaves VF = 0 and the second leaves VF = 1 whenever the sprite
\* has at least one set bit.
C8_DrawTwiceRestores ==
    DrawnTwice =>
        LET before == trace[Len(trace) - 1].gfx
        IN  /\ NonZero(machine.gfx) = before
            /\ (\A p \in before : p[1] \notin LastTarget) =>
                   /\ Pre.registers[15] = 0
                   /\ LastTarget # {} => machine.registers[15] = 1

\* A sprite has been drawn twice over a framebuffer that was not blank, on
\* cells wrapping around both screen edges: the earlier picture is back and
\* the second draw reported the collision
C8_Witness ==
    /\ DrawnTwice
    /\ trace[Len(trace) - 1].gfx # {}
    /\ NonZero(machine.gfx) = trace[Len(trace) - 1].gfx
    /\ Pre.registers[OpX(lastOp)] = 61 /\ Pre.registers[OpY(lastOp)] = 30
    /\ OpN(lastOp) = 15
    /\ machine.registers[15] = 1

\* C9: draw-sprite DXYN toggles exactly the cells ((VX + c) mod 64,
\* (VY + r) mod 32) for which bit (7 - c) of memory[I + r] is set, r in
\* 0..N-1, c in 0..7, and leaves every other cell unchanged; it sets VF = 1 if
\* at least one toggled cell was on before the draw and VF = 0 otherwise,
\* raises the dirty flag, leaves I and memory unchanged, and advances PC by 2.
C9_DrawSprite ==
    [][(About("sprite") /\ machine.index + OpN(Fetching) <= 4096) =>
        LET cells == SpriteCells(machine.memory, machine.index,
                                 machine.registers[OpX(Fetching)],
                                 machine.registers[OpY(Fetching)], OpN(Fetching))
        IN  /\ machine'.gfx =
                   [a \in 0..2047 |->
                       IF a \in cells THEN (machine.gfx[a] + 1) % 2
                       ELSE machine.gfx[a]]
            /\ machine'.registers[15] =
                   (IF \E a \in cells : machine.gfx[a] # 0 THEN 1 ELSE 0)
            /\ machine'.drawFlag
            /\ machine'.index = machine.index
            /\ machine'.memory = machine.memory
            /\ machine'.pc = machine.pc + 2]_vars

\* A 15-row sprite has been drawn at (61, 30) over another picture: cells
\* on both sides of both screen edges are lit, a collision was reported and
\* the dirty flag is up
C9_Witness ==
    /\ Executed("sprite") /\ at = "frame"
    /\ Pre.registers[OpX(lastOp)] = 61 /\ Pre.registers[OpY(lastOp)] = 30
    /\ OpN(lastOp) = 15
    /\ Pre.gfx # {}
    /\ machine.gfx[61 + 64 * 30] = 1 /\ machine.gfx[0 + 64 * 31] = 1
    /\ machine.registers[15] = 1
    /\ machine.drawFlag

\* C10: executing jump 1NNN when NNN equals the current PC does not change PC
\* and moves the machine from running to waiting for a reboot; from then on no
\* instruction is fetched or executed (PC, registers, I, stack, memory and
\* framebuffer stay constant) until the host signals reboot or quit; a jump
\* whose target differs from the current PC never halts: it sets PC to the
\* target and the run loop goes on.
C10_JumpToSelfHalts ==
    [][/\ About("jmp") =>
            IF OpNNN(Fetching) = machine.pc
            THEN /\ at' = "waitForReboot"
                 /\ machine'.pc = machine.pc
            ELSE /\ at' = "frame" /\ err' = Nil
                 /\ machine'.pc = OpNNN(Fetching)
       /\ at = "waitForReboot" =>
            /\ lastOp' = -1 /\ trace' = trace
            /\ machine'.pc = machine.pc
            /\ machine'.registers = machine.registers
            /\ machine'.index = machine.index
            /\ machine'.stack = machine.stack /\ machine'.sp = machine.sp
            /\ machine'.memory = machine.memory
            /\ machine'.gfx = machine.gfx
            /\ at' # "waitForReboot" => err' \in {ErrReboot, ErrQuit}]_vars

\* The machine has parked on a self-jump after drawing a picture and has
\* waited through at least one frame since, PC still on the jump
C10_Witness ==
    /\ at = "waitForReboot" /\ hal.poll
    /\ Len(trace) > 0
    /\ decode(Pre.opcode) = "jmp"
    /\ OpNNN(Pre.opcode) = Pre.pc
    /\ machine.pc = Pre.pc
    /\ NonZero(machine.gfx) # {}

\* The memory of a freshly started machine: the font, zeros, the ROM at
\* 0x200, zeros
FreshMemory(program) ==
    [a \in 0..4095 |->
        IF a < Len(chip8Font) THEN chip8Font[a + 1]
        ELSE IF a >= 512 /\ a - 512 < Len(program) THEN program[a - 511]
        ELSE 0]

Fresh(vm) ==
    /\ vm.pc = 512 /\ vm.index = 0 /\ vm.sp = 0
    /\ \A r \in 0..15 : vm.registers[r] = 0 /\ vm.stack[r] = 0 /\ vm.keypad[r] = 0
    /\ vm.delayTimer = 0 /\ vm.soundTimer = 0
    /\ \A a \in 0..2047 : vm.gfx[a] = 0
    /\ vm.memory = FreshMemory(vm.program)

\* C11: a host reboot request is honoured from both the running and the
\* halted-on-self-loop state: once the input poll reports reboot, no further
\* instruction executes on the old state and the machine re-enters running
\* with PC = 0x200, I = 0, SP = 0, all registers, stack entries, keypad slots,
\* timers and framebuffer cells zero, and memory equal to the font at 0x000
\* followed by zeros and the original program bytes at 0x200, regardless of
\* any memory writes the program made before the reboot.
C11_RebootRestarts ==
    [][/\ (at \in {"frame", "waitForReboot"} /\ err' = ErrReboot) =>
            /\ at' = "main" /\ lastOp' = -1
            /\ machine'.pc = machine.pc /\ machine'.memory = machine.memory
            /\ machine'.registers = machine.registers
       /\ (at = "main" /\ err = ErrReboot) =>
            /\ at' = "step"
            /\ machine'.program = machine.program
            /\ Fresh(machine')]_vars

\* The self-rewriting ROM runs again after a reboot: its first instruction
\* is the original one and the byte pair beyond its end is zero
C11_Witness ==
    /\ at = "step" /\ err = ErrReboot /\ lastOp = -1
    /\ machine.program = RewriteProgram
    /\ Fresh(machine)
    /\ machine.memory[512] = 96 /\ machine.memory[768] = 0

\* C12: fetching an opcode that matches no defined instruction pattern (e.g.
\* 0xFFFF) makes the step fail with an unknown-opcode error that carries the
\* raw 16-bit opcode; the failure is returned by Run to the host and ends the
\* run, so the opcode is never skipped (PC stays on it) and no later
\* instruction of that run is executed.
C12_UnknownOpcodeFails ==
    [][/\ About("unknown") =>
            /\ err' = [kind |-> "unknown op code", opcode |-> Fetching]
            /\ at' = "exit"
            /\ machine' = machine
       /\ at # "exit"]_vars

\* The run has ended on opcode 0xFFFF, the instruction before it executed
\* and PC still on it
C12_Witness ==
    /\ at = "exit"
    /\ err = [kind |-> "unknown op code", opcode |-> 65535]
    /\ lastOp = 65535
    /\ machine.pc = 514 /\ machine.registers[0] = 1

\* The value a timer holds when the instruction being fetched has executed
\* and the timer update of the step begins: what the instruction loads into
\* it, else what it held
DelayBeforeUpdate ==
    IF About("sdelay") THEN machine.registers[OpX(Fetching)] ELSE machine.delayTimer

SoundBeforeUpdate ==
    IF About("ssound") THEN machine.registers[OpX(Fetching)] ELSE machine.soundTimer

\* C13: after every successfully executed instruction the delay timer
\* decreases by exactly 1 if it is nonzero and the sound timer decreases by
\* exactly 1 if it is nonzero (neither ever wraps below 0), and the host beep
\* is requested in exactly those steps in which the sound timer goes from 1
\* to 0, on the value 1 before the decrement; no other part of the run loop
\* changes a timer or requests a beep.
C13_TimerUpdate ==
    [][/\ (at = "step" /\ err' = Nil) =>
            /\ machine'.delayTimer =
                   (IF DelayBeforeUpdate > 0 THEN DelayBeforeUpdate - 1 ELSE 0)
            /\ machine'.soundTimer =
                   (IF SoundBeforeUpdate > 0 THEN SoundBeforeUpdate - 1 ELSE 0)
            /\ hal'.beep <=> (SoundBeforeUpdate = 1 /\ machine'.soundTimer = 0)
       /\ at \in {"frame", "waitForReboot"} =>
            /\ machine'.delayTimer = machine.delayTimer
            /\ machine'.soundTimer = machine.soundTimer
            /\ ~hal'.beep]_vars

\* A sound timer set to 3 has counted 2, 1, 0 over three steps and the beep
\* is requested in the step that took it from 1 to 0, not before; the delay
\* timer set one step later holds 1
C13_Witness ==
    /\ at = "frame" /\ hal.beep
    /\ Len(trace) >= 3
    /\ decode(trace[Len(trace) - 2].opcode) = "ssound"
    /\ trace[Len(trace) - 2].registers[0] = 3
    /\ trace[Len(trace) - 1].soundTimer = 2
    /\ Pre.soundTimer = 1 /\ Pre.delayTimer = 2
    /\ machine.soundTimer = 0 /\ machine.delayTimer = 1

\* The keypad slots that are down
PressedKeys == {k \in 0..15 : machine.keypad[k] # 0}

\* C14: wait-key (FX0A) is a non-advancing, re-entrant instruction: when no
\* keypad slot is pressed it leaves PC and every register unchanged (and the
\* memory, so the same instruction is fetched again on the next step); when
\* at least one slot is pressed it stores in VX the index of the
\* highest-numbered pressed key and advances PC by 2.
C14_WaitKey ==
    [][About("key") =>
        IF PressedKeys = {}
        THEN /\ machine'.pc = machine.pc
             /\ machine'.registers = machine.registers
             /\ machine'.memory = machine.memory
             /\ at' = "frame"
        ELSE /\ machine'.pc = machine.pc + 2
             /\ machine'.registers =
                    [machine.registers EXCEPT ![OpX(Fetching)] =
                        CHOOSE k \in PressedKeys : \A j \in PressedKeys : j <= k]
             /\ at' = "frame"]_vars

\* wait-key has been fetched at the same PC in two steps in a row, the first
\* finding no key and the second storing key 3; the wait-key after it, with
\* keys 3 and F both down, has stored F
C14_Witness ==
    /\ Executed("key") /\ Len(trace) >= 3
    /\ trace[Len(trace) - 2].opcode = lastOp
    /\ trace[Len(trace) - 1].opcode = lastOp
    /\ trace[Len(trace) - 2].pc = trace[Len(trace) - 1].pc
    /\ trace[Len(trace) - 2].registers = trace[Len(trace) - 1].registers
    /\ Pre.pc = trace[Len(trace) - 1].pc + 2
    /\ Pre.registers[OpX(lastOp)] = 3
    /\ PressedKeys = {3, 15}
    /\ machine.registers[OpX(lastOp)] = 15
    /\ machine.pc = Pre.pc + 2

\* The memory addresses the step about to run reads or writes: the opcode
\* at PC and PC+1, then the operand bytes of the instruction fetched
OperandAddrs ==
    IF Fetching = -1 THEN {}
    ELSE CASE decode(Fetching) = "sprite" ->
                  {machine.index + r : r \in 0..(OpN(Fetching) - 1)}
           [] decode(Fetching) = "bcd" -> {machine.index + k : k \in 0..2}
           [] decode(Fetching) \in {"str", "ldr"} ->
                  {machine.index + k : k \in 0..OpX(Fetching)}
           [] OTHER -> {}

Accesses ==
    IF at = "step" THEN {machine.pc, machine.pc + 1} \cup OperandAddrs ELSE {}

\* C15: every memory read or write (opcode fetch at PC and PC+1, draw-sprite
\* rows at I..I+N-1, store-BCD at I..I+2, store/load-registers at I..I+N)
\* uses an address below 4096: an instruction whose access would fall
\* outside 0..4095 makes the step fail with a MemoryFault that Run returns,
\* with the memory as it was before the step.
C15_MemoryFault ==
    [][(\E a \in Accesses : a >= 4096) =>
            /\ at' = "exit"
            /\ err'.kind = "memory fault"
            /\ machine'.memory = machine.memory]_vars

\* C16: the stack pointer satisfies 0 <= SP < 16 at every stack access: a
\* return (00EE) executed with an empty stack and a call (2NNN) executed with
\* 16 frames already pushed make the step fail with a StackFault that Run
\* returns, instead of wrapping the pointer or accessing an entry outside the
\* 16-entry stack.
C16_StackFault ==
    [][((About("rts") /\ machine.sp = 0) \/ (About("jsr") /\ machine.sp >= 16)) =>
            /\ at' = "exit"
            /\ err'.kind = "stack fault"
            /\ machine'.sp = machine.sp]_vars

\* The positions i of the trace that hold the call matching the return just
\* executed: a call made at the stack depth the return came back to, with
\* the stack deeper than that at every instruction between the two
MatchingCalls ==
    {i \in 1..(Len(trace) - 1) :
        /\ decode(trace[i].opcode) = "jsr"
        /\ trace[i].sp = machine.sp
        /\ \A j \in (i + 1)..Len(trace) : trace[j].sp > trace[i].sp}

\* C18: call 2NNN stores the address of the call instruction in stack[SP],
\* then increments SP and sets PC = NNN; return 00EE first decrements SP and
\* then sets PC to stack[SP] + 2; hence, with at most 16 outstanding calls,
\* each return resumes at the instruction immediately after its matching
\* call and SP is back at its value before that call.
C18_CallReturn ==
    /\ (Executed("jsr") /\ Pre.sp < 16) =>
           /\ machine.stack = [Pre.stack EXCEPT ![Pre.sp] = Pre.pc]
           /\ machine.sp = Pre.sp + 1
           /\ machine.pc = OpNNN(lastOp)
    /\ (Executed("rts") /\ Pre.sp \in 1..16) =>
           /\ machine.sp = Pre.sp - 1
           /\ machine.pc = Pre.stack[machine.sp] + 2
           /\ machine.stack = Pre.stack
           /\ \A i \in MatchingCalls :
                  /\ machine.pc = trace[i].pc + 2
                  /\ machine.sp = trace[i].sp

\* The outer of two nested subroutines has returned: the trace holds its
\* call, the inner call and the inner return, and execution resumes right
\* after the outer call with the stack as deep as before it
C18_Witness ==
    /\ Executed("rts") /\ Len(trace) = 5
    /\ MatchingCalls = {1}
    /\ decode(trace[2].opcode) = "jsr" /\ decode(trace[4].opcode) = "rts"
    /\ trace[1].sp = 0 /\ trace[2].sp = 1 /\ Pre.sp = 1
    /\ machine.sp = 0
    /\ machine.pc = trace[1].pc + 2

\* The smaller of two numbers
Least(a, b) == IF a < b THEN a ELSE b

\* C17: program loading never overflows memory: for a program of any length
\* L (including L > 3584), initialization copies program byte i to
\* memory[0x200 + i] for every i < min(L, 3584), writes no program byte below
\* 0x200 or at or above 0x1000 (the memory keeps its 4096 bytes, with the
\* font at its start, zeros up to 0x200 and zeros after the program).
C17_LoadTruncates ==
    [][at = "main" =>
        LET L == Len(machine.program)
        IN  /\ DOMAIN machine'.memory = 0..4095
            /\ \A i \in 0..(Least(L, 3584) - 1) :
                   machine'.memory[512 + i] = machine.program[i + 1]
            /\ \A a \in 0..511 :
                   machine'.memory[a] =
                       (IF a < Len(chip8Font) THEN chip8Font[a + 1] ELSE 0)
            /\ \A a \in (512 + L)..4095 : machine'.memory[a] = 0
            /\ machine'.program = machine.program]_vars

\* A ROM one byte longer than the room above 0x200 has been loaded: the last
\* byte of the memory is the ROM's byte 3583, the font is in place and the
\* bytes below 0x200 after it are zero
C17_Witness ==
    /\ at = "step" /\ lastOp = -1
    /\ Len(machine.program) = 3585
    /\ machine.memory[4095] = machine.program[3584]
    /\ machine.memory[4095] # 0
    /\ machine.memory[0] = chip8Font[1]
    /\ machine.memory[511] = 0
    /\ machine.memory[512] = machine.program[1]

\* The handler an opcode selects, by its top nibble and, where the category
\* has several instructions, its low byte or low nibble
HandlerOf(opcode) ==
    LET top == opcode \div 4096
        low == opcode % 256
        nib == opcode % 16
    IN  CASE top = 0 -> (CASE low = 224 -> "cls" [] low = 238 -> "rts"
                           [] OTHER -> "unknown")
          [] top = 8 -> (CASE nib \in 0..7 ->
                                 <<"mov2", "or", "and", "xor", "add2", "sub",
                                   "shr", "rsb">>[nib + 1]
                           [] nib = 14 -> "shl"
                           [] OTHER -> "unknown")
          [] top = 14 -> (CASE low = 158 -> "skpr" [] low = 161 -> "skup"
                            [] OTHER -> "unknown")
          [] top = 15 -> (CASE low = 7 -> "gdelay" [] low = 10 -> "key"
                            [] low = 21 -> "sdelay" [] low = 24 -> "ssound"
                            [] low = 30 -> "adi" [] low = 41 -> "font"
                            [] low = 51 -> "bcd" [] low = 85 -> "str"
                            [] low = 101 -> "ldr"
                            [] OTHER -> "unknown")
          [] OTHER -> <<"jmp", "jsr", "skeq1", "skne1", "skeq2", "mov1", "add1",
                        "", "skne2", "mvi", "jmi", "rand", "sprite">>[top]

\* C19: decode is a total function of the 16 opcode bits alone: every opcode
\* maps to exactly one handler, selected by the top nibble and, for top
\* nibbles 0x0, 0xE and 0xF, by the low byte and, for top nibble 0x8, by the
\* low nibble; every opcode in those four categories whose low byte / low
\* nibble is not one of the defined values maps to the unknown-instruction
\* handler, whatever the state of the machine.
C19_DecodeTotal ==
    /\ (at = "step" /\ Fetching # -1) =>
           /\ decode(Fetching) = HandlerOf(Fetching)
           /\ decode(Fetching) = "unknown" => executeOpcode(machine, Fetching, 0).err.kind = "unknown op code"
    /\ Acted => decode(lastOp) = HandlerOf(lastOp)

\* An opcode of category 0x8 with an unassigned low nibble, under a second
\* nibble that is not zero, has ended the run as an unknown opcode
C19_Witness ==
    /\ Acted /\ at = "exit"
    /\ lastOp \div 4096 = 8 /\ lastOp % 16 = 15 /\ OpX(lastOp) = 10
    /\ decode(lastOp) = "unknown"
    /\ err = [kind |-> "unknown op code", opcode |-> lastOp]

\* The dirty flag goes up only in initialization, clear-screen and
\* draw-sprite
RaisedByDrawing ==
    (machine'.drawFlag /\ ~machine.drawFlag) =>
        (at = "main" \/ About("cls") \/ About("sprite"))

\* The second half of runStep renders the framebuffer exactly when the flag
\* is set, and leaves the flag clear and the framebuffer as rendered
RenderedWhenSet ==
    at = "frame" =>
        /\ hal'.draw = machine.drawFlag
        /\ ~machine'.drawFlag
        /\ machine'.gfx = machine.gfx

\* Every step of a run after its first starts with the flag clear
ClearAfterFirstStep ==
    (at = "step" /\ trace # <<>>) => ~machine.drawFlag

\* C20: the dirty flag is raised by initialization, clear-screen and
\* draw-sprite and by nothing else; whenever the flag is set the host render
\* is invoked with the current framebuffer before the next instruction
\* executes and the flag is cleared right after the render, so the flag is
\* false at the start of every step after the first and no framebuffer
\* change (including the cleared screen after a reboot) stays unrendered: the
\* machine never comes to rest on a self-jump with the flag still set.
C20_DirtyFlagProtocol ==
    [][/\ RaisedByDrawing
       /\ RenderedWhenSet
       /\ ClearAfterFirstStep
       /\ at' = "waitForReboot" => ~machine'.drawFlag]_vars

\* C21: a step that executes wait-key (FX0A) while no key is pressed, and
\* therefore does not advance PC, is excluded from the timer update: it
\* decrements neither the delay timer nor the sound timer and requests no
\* beep.
C21_WaitKeySkipsTimers ==
    [][(About("key") /\ PressedKeys = {}) =>
            /\ machine'.pc = machine.pc
            /\ machine'.delayTimer = machine.delayTimer
            /\ machine'.soundTimer = machine.soundTimer
            /\ ~hal'.beep]_vars

\* C21, as the code has it: a step that executes wait-key (FX0A) while no
\* key is pressed does not advance PC and is followed by the timer update
\* like every other successfully executed instruction: each nonzero timer
\* decreases by 1 and the beep is requested when the sound timer holds 1.
C21_WaitKeyTicksTimers ==
    [][(About("key") /\ PressedKeys = {}) =>
            /\ machine'.pc = machine.pc
            /\ machine'.delayTimer =
                   (IF machine.delayTimer > 0 THEN machine.delayTimer - 1 ELSE 0)
            /\ machine'.soundTimer =
                   (IF machine.soundTimer > 0 THEN machine.soundTimer - 1 ELSE 0)
            /\ hal'.beep <=> (machine.soundTimer = 1)]_vars

\* wait-key has found no key in two steps in a row: the first took the delay
\* timer from 1 to 0, the second took the sound timer from 1 to 0 and
\* requested the beep
C21_Witness ==
    /\ Executed("key") /\ PressedKeys = {} /\ Len(trace) >= 2
    /\ trace[Len(trace) - 1].opcode = lastOp
    /\ trace[Len(trace) - 1].pc = Pre.pc
    /\ trace[Len(trace) - 1].delayTimer = 1 /\ Pre.delayTimer = 0
    /\ Pre.soundTimer = 1 /\ machine.soundTimer = 0
    /\ machine.pc = Pre.pc
    /\ hal.beep

\* The positions of a queue that hold an event for key k
EventsFor(evs, k) ==
    {i \in 1..Len(evs) : evs[i].type \in {"KEYDOWN", "KEYUP"} /\ evs[i].sc = k}

\* The keypad that follows the events of a queue: a slot with an event in
\* the queue is pressed exactly when the last event for it is a key-down,
\* every other slot is as it was
KeypadAfter(keypad, evs) ==
    [k \in 0..15 |->
        IF EventsFor(evs, k) = {} THEN keypad[k]
        ELSE LET last == CHOOSE i \in EventsFor(evs, k) :
                             \A j \in EventsFor(evs, k) : j <= i
             IN  IF evs[last].type = "KEYDOWN" THEN 1 ELSE 0]

\* A timer one tick later
Ticked(t) == IF t > 0 THEN t - 1 ELSE 0

\* C22: while the machine is halted on a self-loop it keeps accepting host
\* input events and timer ticks: host key-down and key-up events received in
\* the halted state still update the keypad slots, and nonzero delay and
\* sound timers keep counting down, until the host signals a reboot.
C22_HaltedStaysLive ==
    [][(at = "waitForReboot" /\ at' = "waitForReboot") =>
            /\ \A evs \in EventQueues :
                   waitForRebootTurn(machine, evs).err = Nil =>
                       waitForRebootTurn(machine, evs).vm.keypad =
                           KeypadAfter(machine.keypad, evs)
            /\ machine'.delayTimer = Ticked(machine.delayTimer)
            /\ machine'.soundTimer = Ticked(machine.soundTimer)]_vars

\* C22, as the code has it: while the machine is halted on a self-loop the
\* host input is polled for reboot and quit only: whatever key events the
\* host delivers, the keypad slots stay as they were when the machine
\* halted, both timers keep their values and no beep is requested.
C22_HaltedIsFrozen ==
    [][at = "waitForReboot" =>
            /\ \A evs \in EventQueues :
                   /\ waitForRebootTurn(machine, evs).vm.keypad = machine.keypad
                   /\ waitForRebootTurn(machine, evs).err \in {Nil, ErrReboot, ErrQuit}
            /\ machine'.keypad = machine.keypad
            /\ machine'.delayTimer = machine.delayTimer
            /\ machine'.soundTimer = machine.soundTimer
            /\ ~hal'.beep]_vars

\* The machine halted with key 3 down and both timers running and has gone
\* through a halted turn: key 3 is still the only key down and the timers
\* hold what they held
C22_Witness ==
    /\ at = "waitForReboot" /\ hal.poll
    /\ PressedKeys = {3}
    /\ machine.delayTimer = 251 /\ machine.soundTimer = 250

\* C23: a step that fails with an unknown-opcode error or with the self-loop
\* halt signal leaves the whole machine state exactly as it was before the
\* step: memory, V0..VF, I, PC, stack, SP, delay timer, sound timer,
\* framebuffer, dirty flag and keypad are all unchanged, and no render, input
\* poll or beep happens in that step.
C23_FailedStepChangesNothing ==
    [][(About("unknown") \/ (About("jmp") /\ OpNNN(Fetching) = machine.pc)) =>
            /\ err' \in {errInfiniteLoop, ErrUnknown(Fetching)}
            /\ machine'.memory = machine.memory
            /\ machine'.registers = machine.registers
            /\ machine'.index = machine.index /\ machine'.pc = machine.pc
            /\ machine'.stack = machine.stack /\ machine'.sp = machine.sp
            /\ machine'.delayTimer = machine.delayTimer
            /\ machine'.soundTimer = machine.soundTimer
            /\ machine'.gfx = machine.gfx
            /\ machine'.drawFlag = machine.drawFlag
            /\ machine'.keypad = machine.keypad
            /\ ~hal'.draw /\ ~hal'.poll /\ ~hal'.beep]_vars

\* The step that halted the machine on a self-jump has just returned, with
\* both timers running and a key down: the timers and the keypad are as they
\* were before the step and the host has not been called
C23_Witness ==
    /\ at = "waitForReboot" /\ Executed("jmp")
    /\ err = errInfiniteLoop
    /\ hal = NoCalls
    /\ machine.pc = Pre.pc
    /\ Pre.delayTimer = 251 /\ machine.delayTimer = 251
    /\ Pre.soundTimer = 250 /\ machine.soundTimer = 250
    /\ PressedKeys = {15}

----------------------------------------------------------------------------
(* Addresses: the program counter and the index register                    *)

\* jmp 0x203 / pad / 0x203: mov v1,5 / 0x205: jmp 0x205
OddJumpProgram == <<18, 3, 0, 97, 5, 18, 5>>

\* jsr 0x205 / 0x202: jmp 0x202 / pad / 0x205: rts
OddCallProgram == <<34, 5, 18, 2, 0, 0, 238>>

\* mov v0,1 / jmi 0x204 / pad / 0x205: jmp 0x205
OddOffsetProgram == <<96, 1, 178, 4, 0, 18, 5>>

\* mov v0,2; jmi 0x204; <unassigned>; park: a jump with offset to an even
\* address, and mov v0,255; jmi 0xFFF: one beyond the memory
OffsetPrograms ==
    {Bytes(<<OpXNN(6, 0, 2), OpAddr(11, Addr(2)), 65535, Park(3)>>),
     Bytes(<<OpXNN(6, 0, 255), OpAddr(11, 4095)>>)}

AdiRegs == {0, 1, 14}
AdiVals == {0, 1, 255}
AdiAddrs == {0, 4094, 4095}

\* mov vX,v; mvi i; adi vX; adi vX; park
AdiProgram(x, v, i) ==
    Bytes(<<OpXNN(6, x, v), OpAddr(10, i), OpXNN(15, x, 30), OpXNN(15, x, 30),
            Park(4)>>)

\* The number of additions of 255 that take the index register from 0x0FFF
\* past 0xFFFF
ChainLength == ((U16 - 4095) \div 255) + 1

\* mov v1,255; mvi 0xFFF; adi v1 (ChainLength times); park
AdiChain ==
    Bytes([i \in 1..(ChainLength + 3) |->
              IF i = 1 THEN OpXNN(6, 1, 255)
              ELSE IF i = 2 THEN OpAddr(10, 4095)
              ELSE IF i = ChainLength + 3 THEN Park(ChainLength + 2)
              ELSE OpXNN(15, 1, 30)])

AddrPrograms ==
    {OddJumpProgram, OddCallProgram, OddOffsetProgram, AdiChain}
    \cup OffsetPrograms
    \cup {AdiProgram(x, v, i) : x \in AdiRegs, v \in AdiVals, i \in AdiAddrs}

InitAddr == InitWith(AddrPrograms)

SpecAddr == InitAddr /\ [][Next]_vars

\* C24: PC is even in every reachable state: starting from 0x200, every
\* instruction (sequential advance by 2, skip by 4, jump NNN, call NNN,
\* return, jump+offset NNN + V0) leaves PC a multiple of 2, for every program.
C24_PCIsEven == machine.pc % 2 = 0

\* C24, as the code has it: Run starts the machine at 0x200; jump NNN and
\* call NNN set PC to NNN and jump+offset to NNN + V0, even or odd; return
\* continues two bytes after the saved address; every other instruction that
\* succeeds moves PC by 0, 2 or 4 and so keeps it even or odd as it was.
C24_ParityFollowsTargets ==
    [][/\ (at = "main" /\ at' = "step") => machine'.pc = ProgramStart
       /\ (Fetching # -1 /\ err' = Nil) =>
            LET instr == decode(Fetching)
            IN  CASE instr \in {"jmp", "jsr"} -> machine'.pc = OpNNN(Fetching)
                  [] instr = "jmi" ->
                        machine'.pc = (OpNNN(Fetching) + machine.registers[0]) % U16
                  [] instr = "rts" ->
                        machine'.pc = (machine.stack[machine.sp - 1] + InstructionSize) % U16
                  [] OTHER ->
                        /\ (machine'.pc - machine.pc) % U16 \in {0, 2, 4}
                        /\ machine'.pc % 2 = machine.pc % 2]_vars

\* A jump to the odd address 0x203 was taken, the instruction found there
\* was executed and the machine parked at the odd address 0x205
C24_Witness ==
    /\ at = "waitForReboot"
    /\ machine.program = OddJumpProgram
    /\ machine.pc = 517
    /\ machine.registers[1] = 5
    /\ Executed("jmp")

\* C25: addresses stay within 12 bits: in every reachable state I <= 0x0FFF
\* and PC <= 0x0FFF, i.e. set-index, add-to-index, font-address,
\* store-registers, load-registers, jump, call, return, jump+offset and the
\* sequential PC advance all leave the index register and the program
\* counter masked to 0x0FFF.
C25_AddressesWithin12Bits == machine.index <= 4095 /\ machine.pc <= 4095

\* C26: add-to-index (FX1E), for every 16-bit I and every X other than F,
\* sets I := I + VX and sets VF = 1 exactly when the new I is greater than
\* 0x0FFF, else VF = 0; VX is unchanged and PC advances by 2.
C26_AddToIndex ==
    [][(About("adi") /\ OpX(Fetching) # 15) =>
            LET x == OpX(Fetching)
            IN  /\ err' = Nil
                /\ machine'.index = (machine.index + machine.registers[x]) % U16
                /\ machine'.registers[15] = (IF machine'.index > 4095 THEN 1 ELSE 0)
                /\ machine'.registers[x] = machine.registers[x]
                /\ machine'.pc = machine.pc + InstructionSize]_vars

\* An addition that took the index register past 0xFFFF: the sum is cut to
\* 16 bits and the flag is clear
C26_Witness ==
    /\ Executed("adi")
    /\ Pre.index > U16 - 255
    /\ Pre.registers[1] = 255
    /\ machine.index = (Pre.index + 255) - U16
    /\ machine.registers[15] = 0
    /\ machine.registers[1] = 255

\* What C27 says of every step of a run but the halted one: an instruction
\* with its timer update keeps every keypad slot, the input poll of a frame
\* leaves each slot as the last event for its key in the polled queue says
\* (key-down: pressed, key-up: released, no event: as it was), and Run
\* starts with all slots released.
KeypadFollowsEventsWhileRunning ==
    /\ at = "step" => machine'.keypad = machine.keypad
    /\ at = "frame" =>
         \A evs \in EventQueues :
             LET res == runStepRest(machine, evs)
             IN  res.err = Nil => res.vm.keypad = KeypadAfter(machine.keypad, evs)
    /\ at = "main" => \A k \in 0..(KeyCount - 1) : machine'.keypad[k] = 0

C28_CellsAreBits ==
    \A a \in 0..(ScreenWidth * ScreenHeight - 1) : machine.gfx[a] \in {0, 1}

\* A sprite has been drawn over another picture: one cell that was lit went
\* dark and one that was dark is lit
C28_Witness ==
    /\ Executed("sprite")
    /\ \E p \in Pre.gfx : machine.gfx[p[1]] = 0
    /\ \E a \in 0..(ScreenWidth * ScreenHeight - 1) :
           machine.gfx[a] = 1 /\ \A p \in Pre.gfx : p[1] # a

----------------------------------------------------------------------------
(* Skips on the state of a key                                              *)

\* Key numbers: the first key, the two keys of the modelled keyboard, and
\* register values that are no key number
SkipVals == {0, 3, 15, 16, 255}

SkipRegs == {0, 14}

\* mov vX,v; <EX9E skpr or EXA1 skup>; park; park
SkipProgram(x, v, low) ==
    Bytes(<<OpXNN(6, x, v), OpXNN(14, x, low), Park(2), Park(3)>>)

SkipPrograms ==
    {SkipProgram(x, v, low) : x \in SkipRegs, v \in SkipVals, low \in {158, 161}}

InitSkip == InitWith(SkipPrograms)

SpecSkip == InitSkip /\ [][Next]_vars

\* C29: skip-if-key-pressed (EX9E) and skip-if-key-not-pressed (EXA1) only
\* read keypad slots 0..15: for every value of VX in 0..255 the instruction
\* completes, advancing PC by 4 when its condition holds and by 2 otherwise,
\* without an access outside the keypad and without changing any register.
C29_SkipOnKeyCompletes ==
    [][(About("skpr") \/ About("skup")) =>
            LET v == machine.registers[OpX(Fetching)]
                down == v < KeyCount /\ machine.keypad[v] # 0
                up == v < KeyCount /\ machine.keypad[v] = 0
            IN  /\ err' = Nil /\ at' = "frame"
                /\ machine'.registers = machine.registers
                /\ machine'.pc - machine.pc \in {2, 4}
                /\ (About("skpr") /\ down) => machine'.pc = machine.pc + 4
                /\ (About("skpr") /\ up) => machine'.pc = machine.pc + 2
                /\ (About("skup") /\ up) => machine'.pc = machine.pc + 4
                /\ (About("skup") /\ down) => machine'.pc = machine.pc + 2]_vars

====
